---- MODULE Spec2Model ----
(***************************************************************************)
(* A model of the documentation crawler of mcp-for-docs:                   *)
(* DocumentationCrawler (src/src/crawler/index.ts), the URL utilities      *)
(* (src/src/utils/url.ts), the file utilities and the categorizer.         *)
(*                                                                         *)
(* A URL string is modelled by the record `new URL(str)` parses it into    *)
(* (host labels, path segments, query parameters, fragment) or, when it    *)
(* does not parse, by its raw text.  Href(u) is the string again, as a     *)
(* sequence of tokens; regular expressions are matched against it.         *)
(***************************************************************************)
EXTENDS Integers, Sequences, FiniteSets, TLC

----------------------------------------------------------------------------
(* Optional values: undefined is <<>>, a present value v is <<v>>.         *)
None == <<>>
Some(v) == <<v>>
IsSome(o) == o # <<>>

(* Bounds of the model.                                                    *)
MaxFaults == 2
MaxSwitches == 2

(* The resolution of the clock: ticks in one second, the limiter's interval *)
(* of 1000 ms.                                                             *)
TicksPerSecond == 2

(* Program constants.                                                      *)
defaultMaxDepth == 3
defaultRateLimit == 2

----------------------------------------------------------------------------
(* URLs.                                                                   *)

\* The WHATWG URL record of a parseable absolute URL.  pathname is the
\* sequence of segments after each "/": "/" is <<"">>, "/a" is <<"a">>,
\* "/a/" is <<"a", "">>.
U(host, path, query, hash) ==
  [valid |-> TRUE, host |-> host, path |-> path, query |-> query,
   hash |-> hash, raw |-> <<>>]

\* A string `new URL` throws on.
BadUrl(raw) ==
  [valid |-> FALSE, host |-> <<>>, path |-> <<>>, query |-> <<>>,
   hash |-> "", raw |-> raw]

RECURSIVE JoinTokens(_, _)
\* xs joined by sep, as tokens: <<x1, sep, x2, sep, ...>>.
JoinTokens(xs, sep) ==
  IF Len(xs) = 0 THEN <<>>
  ELSE IF Len(xs) = 1 THEN <<xs[1]>>
  ELSE <<xs[1], sep>> \o JoinTokens(Tail(xs), sep)

RECURSIVE PathTokens(_)
PathTokens(path) ==
  IF Len(path) = 0 THEN <<>>
  ELSE (IF path[1] = "" THEN <<"/">> ELSE <<"/", path[1]>>) \o PathTokens(Tail(path))

\* parsed.toString(): the URL as a sequence of tokens.
Href(u) ==
  IF ~u.valid THEN u.raw
  ELSE <<"https://">> \o JoinTokens(u.host, ".") \o PathTokens(u.path)
       \o (IF Len(u.query) = 0 THEN <<>> ELSE <<"?">> \o JoinTokens(u.query, "&"))
       \o (IF u.hash = "" THEN <<>> ELSE <<"#", u.hash>>)

\* The name of a query parameter "name=value" and the order of names that
\* URLSearchParams.sort() uses (code units).
ParamName(p) == IF p \in {"x=1", "x=2"} THEN "x" ELSE "y"
NameRank(n) == IF n = "x" THEN 1 ELSE 2

RECURSIVE InsertParam(_, _)
\* p inserted into the sorted list q after every parameter whose name is not
\* greater (the sort is stable).
InsertParam(q, p) ==
  IF Len(q) = 0 THEN <<p>>
  ELSE IF NameRank(ParamName(q[1])) <= NameRank(ParamName(p))
       THEN <<q[1]>> \o InsertParam(Tail(q), p)
       ELSE <<p>> \o q

\* Mutant: the query parameters are left in the order given.
SortParamsSkipped(q) == q

RECURSIVE SortParams(_)
\* parsed.searchParams.sort()
SortParams(q) ==
  IF Len(q) = 0 THEN <<>>
  ELSE InsertParam(SortParams(SubSeq(q, 1, Len(q) - 1)), q[Len(q)])

\* pathname.replace(/\/$/, '') assigned back to parsed.pathname: one trailing
\* slash is dropped; the setter turns an empty path into "/" again.
StripTrailingSlash(path) ==
  IF path[Len(path)] = ""
  THEN (IF Len(path) = 1 THEN <<"">> ELSE SubSeq(path, 1, Len(path) - 1))
  ELSE path

\* new URL(url) for a string that parses: a URL written without any path
\* (path <<>>) has the pathname "/".
parseUrl(u) == IF u.path = <<>> THEN [u EXCEPT !.path = <<"">>] ELSE u

normalizeUrl(u) ==
  IF ~u.valid THEN u
  ELSE LET parsed == parseUrl(u)
       IN [parsed EXCEPT !.path = StripTrailingSlash(parsed.path),
                         !.hash = "",
                         !.query = SortParams(parsed.query)]

\* Mutant: the registrable domain is compared instead of the hostname.
isSameDomainSite(u1, u2) ==
  IF ~u1.valid \/ ~u2.valid THEN FALSE
  ELSE SubSeq(u1.host, Len(u1.host) - 1, Len(u1.host))
       = SubSeq(u2.host, Len(u2.host) - 1, Len(u2.host))

isSameDomain(u1, u2) ==
  IF ~u1.valid \/ ~u2.valid THEN FALSE
  ELSE u1.host = u2.host

----------------------------------------------------------------------------
(* Regular expressions over token sequences.                               *)

\* needle occurs in hay as a contiguous run of tokens.
Occurs(needle, hay) ==
  \E i \in 1..(Len(hay) - Len(needle) + 1) :
    SubSeq(hay, i, i + Len(needle) - 1) = needle

\* new RegExp(source) throws a SyntaxError on an unterminated group.  Of the
\* characters of a glob only "*", "?", "[" and "]" are rewritten, so a "("
\* reaches the regular expression as it is.
Compiles(pattern) == \A i \in 1..Len(pattern) : pattern[i] # "("

RECURSIVE MatchHere(_, _, _, _)
\* The rewritten glob from position i matches the text from position j:
\* "*" became ".*", "?" became ".", "[" and "]" are literal, and every other
\* token stands for itself.  The expression is not anchored at its end.
MatchHere(pattern, i, text, j) ==
  IF i > Len(pattern) THEN TRUE
  ELSE IF pattern[i] = "*"
       THEN \E k \in j..(Len(text) + 1) : MatchHere(pattern, i + 1, text, k)
  ELSE IF pattern[i] = "?"
       THEN j <= Len(text) /\ MatchHere(pattern, i + 1, text, j + 1)
  ELSE j <= Len(text) /\ text[j] = pattern[i]
       /\ MatchHere(pattern, i + 1, text, j + 1)

\* regex.test(url): the expression is not anchored at its start either.
RegexTest(pattern, text) ==
  \E j \in 1..(Len(text) + 1) : MatchHere(pattern, 1, text, j)

RECURSIVE matchesPatternsFrom(_, _, _)
matchesPatternsFrom(u, patterns, i) ==
  IF i > Len(patterns) THEN "false"
  ELSE IF ~Compiles(patterns[i]) THEN "throw"
  ELSE IF RegexTest(patterns[i], Href(u)) THEN "true"
  ELSE matchesPatternsFrom(u, patterns, i + 1)

\* "true", "false", or "throw" when new RegExp throws before any pattern
\* has matched.
matchesPatterns(u, patterns) == matchesPatternsFrom(u, patterns, 1)

----------------------------------------------------------------------------
(* Names and file names derived from a URL.                                *)

RECURSIVE JoinStr(_, _)
\* xs.join(sep) as one string.
JoinStr(xs, sep) ==
  IF Len(xs) = 0 THEN ""
  ELSE IF Len(xs) = 1 THEN xs[1]
  ELSE xs[1] \o sep \o JoinStr(Tail(xs), sep)

\* array.filter(Boolean) on the path segments.
NonEmpty(path) == SelectSeq(path, LAMBDA s : s # "")

\* array.indexOf(x), 1-based; 0 when x is absent.
IndexOf(xs, x) ==
  IF \E i \in 1..Len(xs) : xs[i] = x
  THEN CHOOSE i \in 1..Len(xs) : xs[i] = x /\ \A k \in 1..(i - 1) : xs[k] # x
  ELSE 0

HostPrefixes == {"www", "docs", "api", "developer", "developers"}
HostSuffixes == {"com", "org", "io", "dev", "net", "edu"}

cleanHostname(host) ==
  LET h1 == IF Len(host) >= 2 /\ host[1] \in HostPrefixes THEN Tail(host) ELSE host
      h2 == IF Len(h1) >= 2 /\ h1[Len(h1)] \in HostSuffixes
            THEN SubSeq(h1, 1, Len(h1) - 1) ELSE h1
  IN JoinStr(h2, ".")

extractDomainName(u) ==
  IF ~u.valid THEN "unknown"
  ELSE LET pathParts == NonEmpty(u.path)
           docIndex == IndexOf(pathParts, "documentation")
           docsIndex == IndexOf(pathParts, "docs")
       IN IF docIndex > 0 /\ Len(pathParts) > 1 /\ docIndex < Len(pathParts)
          THEN pathParts[docIndex + 1]
          ELSE IF docsIndex > 0 /\ Len(pathParts) > 1 /\ docsIndex > 1
          THEN pathParts[docsIndex - 1]
          ELSE cleanHostname(u.host)

\* filename.endsWith('.md'), for the segments of the model.
EndsWithMd(s) == s \in {"index.md"}

\* filename.replace(/[^a-zA-Z0-9._-]/g, '_'), for the segments of the model.
Sanitize(s) == IF s = "a~b" THEN "a_b" ELSE s

urlToFilename(u) ==
  IF ~u.valid THEN "unknown.md"
  ELSE LET n == Len(u.path)
           \* the leading "/" and one trailing "/" are removed
           segs == IF n >= 2 /\ u.path[n] = "" THEN SubSeq(u.path, 1, n - 1) ELSE u.path
           \* the remaining "/" become "_"; the sanitizer runs last and
           \* changes neither "_", "index" nor ".md"
           joined == JoinStr(segs, "_")
           sanitized == JoinStr([i \in 1..Len(segs) |-> Sanitize(segs[i])], "_")
       IN IF joined = "" THEN "index.md"
          ELSE IF EndsWithMd(segs[Len(segs)]) THEN sanitized
          ELSE sanitized \o ".md"

\* path.join(basePath, category, name), relative to the base path.
getDocumentationPath(category, name) == category \o "/" \o name

\* `${docPath}/${filename}`
FilePath(docPath, filename) == docPath \o "/" \o filename

----------------------------------------------------------------------------
(* The categorizer.  Confidences are in units of 1/10000.                  *)

\* Each pattern is the set of token runs its regular expression matches.
Seg(s) == <<"/", s, "/">>

apiUrlPatterns ==
  << {Seg("api")}, {Seg("reference")}, {Seg("rest")}, {Seg("graphql")},
     {Seg("endpoint"), Seg("endpoints")}, {Seg("swagger")}, {Seg("openapi")},
     {<<"api", ".">>}, {<<"developer", ".">>, <<"developers", ".">>},
     {Seg("v1"), Seg("v2")} >>

\* Mutant: /\/docs?/ in place of /\/docs?\//, so that a path ending in
\* "/docs" matches.
toolUrlPatternsOpenEnded ==
  << {<<"/", "doc">>, <<"/", "docs">>}, {Seg("guide")}, {Seg("tutorial")},
     {Seg("getting-started"), Seg("getting_started"), Seg("gettingstarted")},
     {Seg("learn")}, {Seg("manual")}, {Seg("handbook")},
     {<<"docs", ".">>}, {<<"help", ".">>}, {<<"support", ".">>}, {<<"learn", ".">>},
     {<<"/", "install">>}, {<<"/", "setup">>} >>

toolUrlPatterns ==
  << {Seg("doc"), Seg("docs")}, {Seg("guide")}, {Seg("tutorial")},
     {Seg("getting-started"), Seg("getting_started"), Seg("gettingstarted")},
     {Seg("learn")}, {Seg("manual")}, {Seg("handbook")},
     {<<"docs", ".">>}, {<<"help", ".">>}, {<<"support", ".">>}, {<<"learn", ".">>},
     {<<"/", "install">>}, {<<"/", "setup">>} >>

\* The patterns of the list that test true on the text.
Matched(patterns, text) ==
  {i \in 1..Len(patterns) : \E run \in patterns[i] : Occurs(run, text)}

\* /^(https?:\/\/)?(api|developer|developers)\./i
ApiSubdomain(text) ==
  \E name \in {"api", "developer", "developers"} :
    \/ Len(text) >= 3 /\ SubSeq(text, 1, 3) = <<"https://", name, ".">>
    \/ Len(text) >= 2 /\ SubSeq(text, 1, 2) = <<name, ".">>

\* /\/(api|reference|rest|graphql|endpoints?|swagger|openapi)\//i
ApiPathSegment(text) ==
  \E name \in {"api", "reference", "rest", "graphql", "endpoint", "endpoints",
               "swagger", "openapi"} : Occurs(Seg(name), text)

\* /docs\..*\/api(?:\/|$)/i
DocsSlashApi(text) ==
  \E i \in 1..Len(text), j \in 1..Len(text) :
    /\ i + 1 < j /\ j + 1 <= Len(text)
    /\ text[i] = "docs" /\ text[i + 1] = "."
    /\ text[j] = "/" /\ text[j + 1] = "api"
    /\ (j + 1 = Len(text) \/ text[j + 2] = "/")

Min(a, b) == IF a <= b THEN a ELSE b
Max(a, b) == IF a >= b THEN a ELSE b

\* Mutant: the match counts are compared before the precedence rules.
analyzeUrlCountFirst(u) ==
  LET text == Href(u)
      api == Matched(apiUrlPatterns, text)
      tool == Matched(toolUrlPatterns, text)
      nApi == Cardinality(api)
      nTool == Cardinality(tool)
  IN IF nApi > nTool
     THEN [category |-> "apis", confidence |-> Min(8000 + nApi * 1000, 9500),
           matched |-> nApi]
     ELSE IF nTool > nApi
     THEN IF DocsSlashApi(text)
          THEN [category |-> "apis", confidence |-> 8000, matched |-> nApi]
          ELSE [category |-> "tools", confidence |-> Min(8000 + nTool * 1000, 9500),
                matched |-> nTool]
     ELSE IF nApi > 0 /\ nTool > 0 /\ (ApiSubdomain(text) \/ ApiPathSegment(text))
     THEN [category |-> "apis", confidence |-> 8500, matched |-> nApi]
     ELSE IF nApi > 0 /\ nTool > 0
     THEN [category |-> "unknown", confidence |-> 5000, matched |-> nApi + nTool]
     ELSE [category |-> "unknown", confidence |-> 3000, matched |-> 0]

analyzeUrl(u) ==
  LET text == Href(u)
      api == Matched(apiUrlPatterns, text)
      tool == Matched(toolUrlPatterns, text)
      nApi == Cardinality(api)
      nTool == Cardinality(tool)
  IN IF nApi > 0 /\ nTool > 0 /\ (ApiSubdomain(text) \/ ApiPathSegment(text))
     THEN [category |-> "apis", confidence |-> 8500, matched |-> nApi]
     ELSE IF nApi > nTool
     THEN [category |-> "apis", confidence |-> Min(8000 + nApi * 1000, 9500),
           matched |-> nApi]
     ELSE IF nTool > nApi
     THEN IF DocsSlashApi(text)
          THEN [category |-> "apis", confidence |-> 8000, matched |-> nApi]
          ELSE [category |-> "tools", confidence |-> Min(8000 + nTool * 1000, 9500),
                matched |-> nTool]
     ELSE IF nApi > 0 /\ nTool > 0
     THEN [category |-> "unknown", confidence |-> 5000, matched |-> nApi + nTool]
     ELSE [category |-> "unknown", confidence |-> 3000, matched |-> 0]

\* The content argument: kind is "absent" (undefined), "empty" (the empty
\* string), "space" (whitespace only) or "text"; api and tool count the
\* indicators of each list found in it, the code examples included.
Content(kind, api, tool) == [kind |-> kind, api |-> api, tool |-> tool]
EmptyContent == Content("empty", 0, 0)

analyzeContent(c) ==
  IF 2 * c.api > 3 * c.tool
  THEN [category |-> "apis", confidence |-> Min(7000 + c.api * 300, 9500),
        indicators |-> c.api]
  ELSE IF 2 * c.tool > 3 * c.api
  THEN [category |-> "tools", confidence |-> Min(7000 + c.tool * 300, 9500),
        indicators |-> c.tool]
  ELSE IF c.api > 0 /\ c.tool > 0
  THEN [category |-> "unknown", confidence |-> 5000, indicators |-> c.api + c.tool]
  ELSE [category |-> "unknown", confidence |-> 3000, indicators |-> 0]

\* Mutant: the URL analysis is adopted as it is, unknown included.
combineScoresVerbatim(urlScore, contentScore) ==
  [category |-> urlScore.category, confidence |-> urlScore.confidence,
   reasons |-> <<"URL patterns matched">>]

\* Mutant: the URL analysis is discounted also when there is no content.
combineScoresDiscounted(urlScore, contentScore) ==
  IF urlScore.category # "unknown"
  THEN [category |-> urlScore.category,
        confidence |-> Min((urlScore.confidence * 3) \div 4, 7900),
        reasons |-> <<"URL analysis suggests", "URL patterns">>]
  ELSE [category |-> "tools", confidence |-> 3000,
        reasons |-> <<"No clear URL patterns found">>]

\* Mutant: on disagreement the winning analysis keeps its confidence.
combineScoresUndiscounted(urlScore, contentScore) ==
  IF ~IsSome(contentScore)
  THEN IF urlScore.category # "unknown"
       THEN [category |-> urlScore.category, confidence |-> urlScore.confidence,
             reasons |-> <<"URL patterns matched">>]
       ELSE [category |-> "tools", confidence |-> 3000,
             reasons |-> <<"No clear URL patterns found">>]
  ELSE LET cs == contentScore[1] IN
    IF urlScore.category = cs.category /\ urlScore.category # "unknown"
    THEN [category |-> urlScore.category,
          confidence |-> Max(urlScore.confidence, cs.confidence),
          reasons |-> <<"URL patterns", "Content indicators">>]
    ELSE IF cs.confidence > urlScore.confidence /\ cs.category # "unknown"
    THEN [category |-> cs.category, confidence |-> cs.confidence,
          reasons |-> <<"Content analysis suggests", "Content indicators">>]
    ELSE IF urlScore.category # "unknown"
    THEN [category |-> urlScore.category, confidence |-> urlScore.confidence,
          reasons |-> <<"URL analysis suggests", "URL patterns">>]
    ELSE [category |-> "tools", confidence |-> 4000,
          reasons |-> <<"Uncertain categorization">>]

\* reasons is the list of the kinds of reason pushed.
combineScores(urlScore, contentScore) ==
  IF ~IsSome(contentScore)
  THEN IF urlScore.category # "unknown"
       THEN [category |-> urlScore.category, confidence |-> urlScore.confidence,
             reasons |-> <<"URL patterns matched">>]
       ELSE [category |-> "tools", confidence |-> 3000,
             reasons |-> <<"No clear URL patterns found">>]
  ELSE LET cs == contentScore[1] IN
    IF urlScore.category = cs.category /\ urlScore.category # "unknown"
    THEN [category |-> urlScore.category,
          confidence |-> Max(urlScore.confidence, cs.confidence),
          reasons |-> (IF urlScore.matched > 0 THEN <<"URL patterns">> ELSE <<>>)
                      \o (IF cs.indicators > 0 THEN <<"Content indicators">> ELSE <<>>)]
    ELSE IF cs.confidence > urlScore.confidence /\ cs.category # "unknown"
    THEN [category |-> cs.category, confidence |-> (cs.confidence * 3) \div 4,
          reasons |-> <<"Content analysis suggests", "Content indicators">>]
    ELSE IF urlScore.category # "unknown"
    THEN [category |-> urlScore.category,
          confidence |-> Min((urlScore.confidence * 3) \div 4, 7900),
          reasons |-> <<"URL analysis suggests", "URL patterns">>]
    ELSE [category |-> "tools", confidence |-> 4000,
          reasons |-> <<"Uncertain categorization">>
                      \o (IF urlScore.matched > 0 THEN <<"Mixed URL patterns">> ELSE <<>>)
                      \o (IF cs.indicators > 0 THEN <<"Mixed content indicators">> ELSE <<>>)]

\* Mutant: `content !== undefined` in place of the truthiness test.
categorizeDefinedContent(u, content) ==
  combineScores(analyzeUrl(u),
                IF content.kind # "absent" THEN Some(analyzeContent(content)) ELSE None)

\* `content ? analyzeContent(content) : null`: undefined and the empty
\* string are falsy.
categorize(u, content) ==
  combineScores(analyzeUrl(u),
                IF content.kind \notin {"absent", "empty"}
                THEN Some(analyzeContent(content)) ELSE None)

----------------------------------------------------------------------------
(* The site being crawled: what the browser gets for each URL.             *)

DocsHost == <<"docs", "x", "test">>
ApiHost == <<"api", "x", "test">>

P(host, path) == U(host, path, <<>>, "")

Root == P(DocsHost, <<"">>)
PageA == P(DocsHost, <<"a">>)
PageASlash == P(DocsHost, <<"a", "">>)
PageATop == U(DocsHost, <<"a">>, <<>>, "top")
PageB == P(DocsHost, <<"b">>)
PageBTop == U(DocsHost, <<"b">>, <<>>, "top")
PageCyx == U(DocsHost, <<"c">>, <<"y=2", "x=1">>, "")
PageCxy == U(DocsHost, <<"c">>, <<"x=1", "y=2">>, "")
PageC == P(DocsHost, <<"c">>)
PageD == P(DocsHost, <<"d">>)
PageE == P(DocsHost, <<"e">>)
PageF == P(DocsHost, <<"f">>)
PageG == P(DocsHost, <<"g">>)
OtherA == P(ApiHost, <<"a">>)
NotAUrl == BadUrl(<<"not-a-url">>)

\* The document served for a URL: its extracted content and the absolute
\* URLs of its a[href] elements, in document order.  The server ignores a
\* trailing slash, the query and the fragment.
Site(u) ==
  LET parts == NonEmpty(u.path) IN
  IF u.host # DocsHost THEN [content |-> Content("text", 3, 0), hrefs |-> <<Root>>]
  ELSE IF parts = <<>>
  THEN [content |-> Content("text", 0, 2),
        hrefs |-> <<PageA, PageASlash, PageA, PageBTop, OtherA, Root>>]
  ELSE IF parts = <<"a">>
  THEN [content |-> Content("text", 8, 0),
        hrefs |-> <<PageCyx, PageCxy, PageB, PageATop, PageC>>]
  ELSE IF parts = <<"b">>
  THEN [content |-> Content("text", 1, 1), hrefs |-> <<PageA, PageD>>]
  ELSE IF parts = <<"c">>
  THEN [content |-> Content("text", 0, 1), hrefs |-> <<PageE>>]
  ELSE IF parts = <<"d">>
  THEN [content |-> Content("space", 0, 0), hrefs |-> <<PageF>>]
  ELSE IF parts = <<"e">>
  THEN [content |-> Content("text", 0, 1), hrefs |-> <<PageG, Root>>]
  ELSE [content |-> Content("text", 0, 1), hrefs |-> <<>>]

RECURSIVE Dedup(_)
\* [...new Set(links)]: first occurrences, in order.
Dedup(xs) ==
  IF Len(xs) = 0 THEN <<>>
  ELSE LET front == Dedup(SubSeq(xs, 1, Len(xs) - 1))
           x == xs[Len(xs)]
       IN IF \E i \in 1..Len(front) : front[i] = x THEN front ELSE Append(front, x)

\* ContentParser.extractLinks on the document served for u.
extractLinks(u) == Dedup(Site(u).hrefs)

\* ContentParser.extractContent on the document served for u.
extractContent(u) == Site(u).content

----------------------------------------------------------------------------
(* The inputs of crawl().                                                  *)

IncludeDocs == <<"docs", ".">>
IncludeA == <<"*", "/", "a">>
ExcludeB == <<"/", "b">>
Unbalanced == <<"(">>

SeedUrls == {Root, PageASlash, NotAUrl}
MaxDepths == {None, Some(0), Some(1), Some(2)}
IncludeLists == {None, Some(<<>>), Some(<<IncludeA>>), Some(<<IncludeDocs, Unbalanced>>)}
ExcludeLists == {None, Some(<<ExcludeB>>)}

CrawlOptions ==
  [url : SeedUrls, max_depth : MaxDepths, force_refresh : BOOLEAN,
   include_patterns : IncludeLists, exclude_patterns : ExcludeLists]

\* The index files that may be on disk before the crawl.
IndexFiles ==
  {FilePath(getDocumentationPath(c, n), "index.md") :
     c \in {"tools", "apis"}, n \in {"x.test", "unknown"}}

----------------------------------------------------------------------------
(* The crawler.                                                            *)

VARIABLES
  options,      \* the argument of crawl()
  pc,           \* where crawl() is: "start", "home", "check", "traverse",
                \* "returned" or "threw"
  browser,      \* this.browser: "null" or "open"
  visited,      \* this.visited
  discovered,   \* this.discovered
  errors,       \* this.errors: records [url, msg] for `Failed to process ${url}: ${msg}`
  savedFiles,   \* this.savedFiles
  category,     \* crawl()'s local
  name,         \* crawl()'s local
  indexExists,  \* crawl()'s local; FALSE until the existence check assigns it
  maxDepth,     \* the maxDepth argument of crawlRecursive
  stack,        \* the pending crawlRecursive calls, innermost last
  result,       \* what crawl() returned: None or Some(CrawlResult)
  fs,           \* the files on disk
  fetchLog,     \* every page the browser was asked for: [kind, url, depth, via]
  faults        \* environment failures so far

\* The rate limiter (this.queue) and the clock it runs against.
VARIABLES
  elapsed,        \* ticks since the limiter's current interval began, at most
                  \* TicksPerSecond (the interval is over)
  intervalCount,  \* tasks the limiter started in its current interval
  recent,         \* the page requests begun less than a second ago: [kind, age]
  inFlight        \* the renders begun and not yet finished: [kind, url]

\* The arguments and the value of a call of a pure function.
VARIABLES
  call,           \* [fn, args] of the call being made, or None
  returned        \* its value, or None

\* The crawl() invocations on the instance.
VARIABLES
  other,          \* the locals of the other invocation of crawl() on this
                  \* instance, or None while there is only one
  self,           \* which invocation the locals above belong to: 1 or 2
  held,           \* the invocations whose returned result holds the very arrays
                  \* that this.savedFiles and this.errors are now
  mode,           \* "single", or how the second call was made: "sequential"
                  \* (after the first had settled) or "overlapping"
  since,          \* the length of fetchLog when the second call was made
  switches        \* how often the event loop went from one invocation to the other

crawlerVars == <<options, pc, browser, visited, discovered, errors, savedFiles, category,
                 name, indexExists, maxDepth, stack, result, fs, fetchLog, faults>>
limiterVars == <<elapsed, intervalCount, recent, inFlight>>
callVars == <<call, returned>>
sessionVars == <<other, self, held, mode, since, switches>>

vars == <<crawlerVars, limiterVars, callVars, sessionVars>>

\* A DocumentationCrawler after its constructor, before crawl() is called.
Constructed ==
  /\ pc = "start"
  /\ browser = "null"
  /\ visited = {}
  /\ discovered = {}
  /\ errors = <<>>
  /\ savedFiles = <<>>
  /\ category = "tools"
  /\ name = ""
  /\ indexExists = FALSE
  /\ maxDepth = 0
  /\ stack = <<>>
  /\ result = None
  /\ fetchLog = <<>>
  /\ other = None
  /\ self = 1
  /\ held = {}
  /\ mode = "single"
  /\ since = 0
  /\ switches = 0

\* The constructor's queue: nothing started, no interval pending.
LimiterIdle ==
  /\ elapsed = TicksPerSecond
  /\ intervalCount = 0
  /\ recent = <<>>
  /\ inFlight = {}

\* No pure function is being called.
NoCall == call = None /\ returned = None

Init ==
  /\ options \in CrawlOptions
  /\ fs \in {{}, IndexFiles}
  /\ faults = 0
  /\ Constructed
  /\ LimiterIdle
  /\ NoCall

\* The environment may fail once more.
MayFail == faults < MaxFaults

\* Mutant: cleanup() leaves the browser as it is.
cleanupSkipped == browser' = browser

\* cleanup(), from crawl()'s finally.
cleanup == browser' = "null"

\* initialize(): chromium.launch; a failure to launch propagates.
Initialize ==
  /\ pc = "start"
  /\ \/ /\ browser' = "open"
        /\ pc' = "home"
        /\ UNCHANGED faults
     \/ /\ browser = "null" /\ MayFail
        /\ faults' = faults + 1
        /\ pc' = "threw"
        /\ UNCHANGED browser
  /\ UNCHANGED <<options, visited, discovered, errors, savedFiles, category, name,
                 indexExists, maxDepth, stack, result, fs, fetchLog>>

\* a || b for numbers: 0 and undefined are falsy.
OrElse(a, b) == IF IsSome(a) /\ a[1] # 0 THEN a[1] ELSE b

\* options.max_depth || siteConfig.max_depth || appConfig.crawler.defaultMaxDepth,
\* with the inferred site configuration's max_depth = defaultMaxDepth.
EffectiveMaxDepth(opts) == OrElse(opts.max_depth, OrElse(Some(defaultMaxDepth), defaultMaxDepth))

\* fetchPageContent, categorize and inferSiteConfig: the homepage is rendered
\* for categorization; a failed render gives the empty string.
FetchHomepage ==
  /\ pc = "home"
  /\ fetchLog' = Append(fetchLog, [kind |-> "home", url |-> options.url, depth |-> 0,
                                     via |-> None])
  /\ \E ok \in BOOLEAN :
       /\ ok => options.url.valid
       /\ ~ok /\ options.url.valid => MayFail
       /\ faults' = IF ~ok /\ options.url.valid THEN faults + 1 ELSE faults
       /\ LET homepageContent == IF ok THEN extractContent(options.url) ELSE EmptyContent
          IN category' = categorize(options.url, homepageContent).category
  /\ name' = extractDomainName(options.url)
  /\ pc' = "check"
  /\ UNCHANGED <<options, browser, visited, discovered, errors, savedFiles, indexExists,
                 maxDepth, stack, result, fs>>

\* fileExists(filePath)
fileExists(filePath) == filePath \in fs

\* Mutant: the existence check does not look at force_refresh.
ExistingDocumentationIgnoringForce ==
  fileExists(FilePath(getDocumentationPath(category, name), "index.md"))

\* The existence check: asked only when force_refresh is off.
ExistingDocumentation ==
  ~options.force_refresh
  /\ fileExists(FilePath(getDocumentationPath(category, name), "index.md"))

ExistingResult ==
  [success |-> TRUE,
   stats |-> [discovered |-> 0, processed |-> 0, saved |-> 0, errors |-> 0],
   savedFiles |-> <<>>,
   errors |-> <<"Documentation already exists. Use force_refresh to update.">>,
   category |-> category, name |-> name]

\* A call crawlRecursive(u, depth, ...) made from the loop of the call for
\* the page `parent` (None for the call made by crawl()).
Frame(u, depth, parent) ==
  [url |-> u, depth |-> depth, parent |-> parent, pc |-> "enter", links |-> <<>>, i |-> 1]

\* The existence check; then either the early return, or the reset of the
\* session state and the call crawlRecursive(options.url, 0, ...).
CheckExisting ==
  /\ pc = "check"
  /\ indexExists' = ExistingDocumentation
  /\ IF ExistingDocumentation
     THEN /\ result' = Some(ExistingResult)
          /\ cleanup
          /\ pc' = "returned"
          /\ UNCHANGED <<visited, discovered, errors, savedFiles, maxDepth, stack>>
     ELSE /\ visited' = {}
          /\ discovered' = {}
          /\ errors' = <<>>
          /\ savedFiles' = <<>>
          /\ maxDepth' = EffectiveMaxDepth(options)
          /\ stack' = <<Frame(options.url, 0, None)>>
          /\ pc' = "traverse"
          /\ UNCHANGED <<result, browser>>
  /\ UNCHANGED <<options, category, name, fs, fetchLog, faults>>

Top == stack[Len(stack)]
Pop(st) == SubSeq(st, 1, Len(st) - 1)
SetTop(st, f) == [st EXCEPT ![Len(st)] = f]

\* Mutant: the visited set is not consulted.
AdmissionNoVisited(u, depth, maxD, opts, vis) ==
  IF depth > maxD THEN "return"
  ELSE LET inc == IF IsSome(opts.include_patterns)
                  THEN matchesPatterns(u, opts.include_patterns[1]) ELSE "true"
       IN IF inc = "throw" THEN "throw"
          ELSE IF inc = "false" THEN "return"
          ELSE LET exc == IF IsSome(opts.exclude_patterns)
                          THEN matchesPatterns(u, opts.exclude_patterns[1]) ELSE "false"
               IN IF exc = "throw" THEN "throw"
                  ELSE IF exc = "true" THEN "return"
                  ELSE IF ~isSameDomain(u, opts.url) THEN "return"
                  ELSE "visit"

\* Mutant: a URL that matches an include pattern is admitted without the
\* exclude patterns being consulted.
AdmissionIncludeWins(u, depth, maxD, opts, vis) ==
  IF normalizeUrl(u) \in vis \/ depth > maxD THEN "return"
  ELSE LET inc == IF IsSome(opts.include_patterns)
                  THEN matchesPatterns(u, opts.include_patterns[1]) ELSE "none"
       IN IF inc = "throw" THEN "throw"
          ELSE IF inc = "false" THEN "return"
          ELSE LET exc == IF IsSome(opts.exclude_patterns) /\ inc = "none"
                          THEN matchesPatterns(u, opts.exclude_patterns[1]) ELSE "false"
               IN IF exc = "throw" THEN "throw"
                  ELSE IF exc = "true" THEN "return"
                  ELSE IF ~isSameDomain(u, opts.url) THEN "return"
                  ELSE "visit"

\* The checks at the head of crawlRecursive, in the code's order: "return"
\* (a no-op), "throw" (a pattern did not compile) or "visit".
Admission(u, depth, maxD, opts, vis) ==
  IF normalizeUrl(u) \in vis \/ depth > maxD THEN "return"
  ELSE LET inc == IF IsSome(opts.include_patterns)
                  THEN matchesPatterns(u, opts.include_patterns[1]) ELSE "true"
       IN IF inc = "throw" THEN "throw"
          ELSE IF inc = "false" THEN "return"
          ELSE LET exc == IF IsSome(opts.exclude_patterns)
                          THEN matchesPatterns(u, opts.exclude_patterns[1]) ELSE "false"
               IN IF exc = "throw" THEN "throw"
                  ELSE IF exc = "true" THEN "return"
                  ELSE IF ~isSameDomain(u, opts.url) THEN "return"
                  ELSE "visit"

\* `Failed to process ${url}: ${message}`
Failure(u, msg) == [url |-> u, msg |-> msg]

\* crawlRecursive(url, depth, ...) up to this.visited.add(normalizedUrl).  An
\* exception here is outside the callee's try: it reaches the caller's catch
\* (the caller is inside its own try, in the loop over its links), or leaves
\* crawl() when the callee is the seed.
Enter ==
  /\ pc = "traverse" /\ stack # <<>> /\ Top.pc = "enter"
  /\ LET adm == Admission(Top.url, Top.depth, maxDepth, options, visited) IN
     \/ /\ adm = "return"
        /\ stack' = Pop(stack)
        /\ UNCHANGED <<visited, errors, pc, browser>>
     \/ /\ adm = "visit"
        /\ visited' = visited \cup {normalizeUrl(Top.url)}
        /\ stack' = SetTop(stack, [Top EXCEPT !.pc = "process"])
        /\ UNCHANGED <<errors, pc, browser>>
     \/ /\ adm = "throw" /\ Len(stack) > 1
        /\ errors' = Append(errors, Failure(stack[Len(stack) - 1].url,
                                            "Invalid regular expression"))
        /\ stack' = Pop(Pop(stack))
        /\ UNCHANGED <<visited, pc, browser>>
     \/ /\ adm = "throw" /\ Len(stack) = 1
        /\ stack' = <<>>
        /\ cleanup
        /\ pc' = "threw"
        /\ UNCHANGED <<visited, errors>>
  /\ UNCHANGED <<options, discovered, savedFiles, category, name, indexExists, maxDepth,
                 result, fs, fetchLog, faults>>

\* Mutant: processPage does not test this.browser.
processPageAnyBrowser(u, env) ==
  IF ~u.valid \/ env = "render" THEN "Navigation failed"
  ELSE IF extractContent(u).kind # "text" THEN "No content extracted"
  ELSE IF env = "write" THEN "Write failed"
  ELSE "saved"

\* processPage(url, category, name) under the environment's choice env of
\* "ok", "render" (navigation fails) or "write" (the write fails): "saved" or
\* the message of the error thrown.
processPage(u, env) ==
  IF browser = "null" THEN "Browser not initialized"
  ELSE IF ~u.valid \/ env = "render" THEN "Navigation failed"
  ELSE IF extractContent(u).kind # "text" THEN "No content extracted"
  ELSE IF env = "write" THEN "Write failed"
  ELSE "saved"

\* Mutant: links are harvested at the maximum depth too.
AfterProcessInclusive(out, depth, maxD) ==
  IF out # "saved" THEN "catch"
  ELSE IF depth <= maxD THEN "harvest"
  ELSE "return"

\* Mutant: an error of the queued task is swallowed and the page is
\* expanded all the same.
AfterProcessIgnoringFailure(out, depth, maxD) ==
  IF depth < maxD THEN "harvest"
  ELSE IF out # "saved" THEN "catch"
  ELSE "return"

\* What follows the queued task inside the try of crawlRecursive: an error
\* goes to the catch; after a save, links are harvested only below the
\* maximum depth.
AfterProcess(out, depth, maxD) ==
  IF out # "saved" THEN "catch"
  ELSE IF depth < maxD THEN "harvest"
  ELSE "return"

\* Mutant: the queued task runs outside the try, so its error reaches the
\* catch of the calling crawlRecursive.
ProcessCatcherCaller(st) == IF Len(st) > 1 THEN Len(st) - 1 ELSE Len(st)

\* The frame whose catch receives an error thrown by the queued task: the
\* try of the same crawlRecursive call encloses queue.add.
ProcessCatcher(st) == Len(st)

\* The queued task (processPage) and the catch around it.
Process ==
  /\ pc = "traverse" /\ stack # <<>> /\ Top.pc = "process"
  /\ fetchLog' = IF browser = "null" THEN fetchLog
                 ELSE Append(fetchLog, [kind |-> "process", url |-> Top.url,
                                        depth |-> Top.depth, via |-> Top.parent])
  /\ \E env \in {"ok", "render", "write"} :
       /\ env # "ok" => MayFail /\ processPage(Top.url, env) \in {"Navigation failed", "Write failed"}
                        /\ Top.url.valid
       /\ faults' = IF env = "ok" THEN faults ELSE faults + 1
       /\ LET out == processPage(Top.url, env)
              filePath == FilePath(getDocumentationPath(category, name), urlToFilename(Top.url))
              after == AfterProcess(out, Top.depth, maxDepth)
              catcher == ProcessCatcher(stack)
          IN /\ IF out = "saved"
                THEN /\ savedFiles' = Append(savedFiles, filePath)
                     /\ fs' = fs \cup {filePath}
                ELSE UNCHANGED <<savedFiles, fs>>
             /\ IF after = "catch"
                THEN /\ errors' = Append(errors, Failure(stack[catcher].url, out))
                     /\ stack' = SubSeq(stack, 1, catcher - 1)
                ELSE /\ UNCHANGED errors
                     /\ stack' = IF after = "harvest"
                                 THEN SetTop(stack, [Top EXCEPT !.pc = "harvest"])
                                 ELSE Pop(stack)
  /\ UNCHANGED <<options, pc, browser, visited, discovered, category, name, indexExists,
                 maxDepth, result>>

\* extractLinksFromPage(url): a second render of the same URL, outside the
\* queue; a failure gives no links.
Harvest ==
  /\ pc = "traverse" /\ stack # <<>> /\ Top.pc = "harvest"
  /\ IF browser = "null"
     THEN /\ stack' = SetTop(stack, [Top EXCEPT !.pc = "loop", !.links = <<>>, !.i = 1])
          /\ UNCHANGED <<fetchLog, faults>>
     ELSE /\ fetchLog' = Append(fetchLog, [kind |-> "harvest", url |-> Top.url,
                                           depth |-> Top.depth, via |-> Top.parent])
          /\ \/ /\ Top.url.valid
                /\ stack' = SetTop(stack, [Top EXCEPT !.pc = "loop",
                                                      !.links = extractLinks(Top.url), !.i = 1])
                /\ UNCHANGED faults
             \/ /\ MayFail \/ ~Top.url.valid
                /\ faults' = IF Top.url.valid THEN faults + 1 ELSE faults
                /\ stack' = SetTop(stack, [Top EXCEPT !.pc = "loop", !.links = <<>>, !.i = 1])
  /\ UNCHANGED <<options, pc, browser, visited, discovered, errors, savedFiles, category,
                 name, indexExists, maxDepth, result, fs>>

\* Mutant: the call for a link is put on a work queue that is served first
\* in, first out, after the calling page is done.
CallDeferred(st, f) == <<f>> \o st

\* `await this.crawlRecursive(link, depth + 1, ...)`: the callee runs to its
\* end before the caller's loop resumes.
Call(st, f) == Append(st, f)

\* Mutant: every link is recursed into, discovered before or not.
LoopEveryLink ==
  /\ pc = "traverse" /\ stack # <<>> /\ Top.pc = "loop"
  /\ IF Top.i > Len(Top.links)
     THEN /\ stack' = Pop(stack)
          /\ UNCHANGED discovered
     ELSE LET link == Top.links[Top.i]
              normalizedLink == normalizeUrl(link)
              next == SetTop(stack, [Top EXCEPT !.i = Top.i + 1])
          IN /\ discovered' = discovered \cup {normalizedLink}
             /\ stack' = Call(next, Frame(link, Top.depth + 1, Some(Top.url)))
  /\ UNCHANGED <<options, pc, browser, visited, errors, savedFiles, category, name,
                 indexExists, maxDepth, result, fs, fetchLog, faults>>

\* One turn of `for (const link of links)`, or the return after the last.
Loop ==
  /\ pc = "traverse" /\ stack # <<>> /\ Top.pc = "loop"
  /\ IF Top.i > Len(Top.links)
     THEN /\ stack' = Pop(stack)
          /\ UNCHANGED discovered
     ELSE LET link == Top.links[Top.i]
              normalizedLink == normalizeUrl(link)
              next == SetTop(stack, [Top EXCEPT !.i = Top.i + 1])
          IN IF normalizedLink \notin discovered
             THEN /\ discovered' = discovered \cup {normalizedLink}
                  /\ stack' = Call(next, Frame(link, Top.depth + 1, Some(Top.url)))
             ELSE /\ stack' = next
                  /\ UNCHANGED discovered
  /\ UNCHANGED <<options, pc, browser, visited, errors, savedFiles, category, name,
                 indexExists, maxDepth, result, fs, fetchLog, faults>>

\* Mutant: the processed count is taken from the saved files.
CrawlResultSavedAsProcessed ==
  [success |-> Len(errors) = 0,
   stats |-> [discovered |-> Cardinality(discovered), processed |-> Len(savedFiles),
              saved |-> Len(savedFiles), errors |-> Len(errors)],
   savedFiles |-> savedFiles,
   errors |-> errors,
   category |-> category, name |-> name]

\* The CrawlResult built after crawlRecursive has returned.
CrawlResult ==
  [success |-> Len(errors) = 0,
   stats |-> [discovered |-> Cardinality(discovered), processed |-> Cardinality(visited),
              saved |-> Len(savedFiles), errors |-> Len(errors)],
   savedFiles |-> savedFiles,
   errors |-> errors,
   category |-> category, name |-> name]

Finish ==
  /\ pc = "traverse" /\ stack = <<>>
  /\ result' = Some(CrawlResult)
  /\ cleanup
  /\ pc' = "returned"
  /\ UNCHANGED <<options, visited, discovered, errors, savedFiles, category, name,
                 indexExists, maxDepth, stack, fs, fetchLog, faults>>

\* One crawl(): the limiter's timing and the pure functions are left aside.
Next ==
  \/ Initialize /\ UNCHANGED <<limiterVars, callVars, sessionVars>>
  \/ FetchHomepage /\ UNCHANGED <<limiterVars, callVars, sessionVars>>
  \/ CheckExisting /\ UNCHANGED <<limiterVars, callVars, sessionVars>>
  \/ Enter /\ UNCHANGED <<limiterVars, callVars, sessionVars>>
  \/ Process /\ UNCHANGED <<limiterVars, callVars, sessionVars>>
  \/ Harvest /\ UNCHANGED <<limiterVars, callVars, sessionVars>>
  \/ Loop /\ UNCHANGED <<limiterVars, callVars, sessionVars>>
  \/ Finish /\ UNCHANGED <<limiterVars, callVars, sessionVars>>

Spec == Init /\ [][Next]_vars

----------------------------------------------------------------------------
(* The crawl against the clock: the rate limiter and the renders in flight. *)

RateLimits == {None, Some(1), Some(2)}

TimedOptions ==
  [url : {Root}, max_depth : {None, Some(1)}, force_refresh : {FALSE},
   include_patterns : {None}, exclude_patterns : {None},
   rate_limit : RateLimits]

\* Mutant: the queue of the constructor is kept, whatever the option says.
EffectiveRateLimitOfConstructor(opts) == defaultRateLimit

\* options.rate_limit || appConfig.crawler.defaultRateLimit, the intervalCap
\* of the queue made for the crawl.
EffectiveRateLimit(opts) == OrElse(opts.rate_limit, defaultRateLimit)

\* The limiter lets a task start: its interval is over, or fewer than
\* intervalCap tasks have started in it.
LimiterAllows(cap) == elapsed >= TicksPerSecond \/ intervalCount < cap

\* The limiter starts a task: the first start after an interval is over
\* begins the next interval.
LimiterStart ==
  IF elapsed >= TicksPerSecond
  THEN elapsed' = 0 /\ intervalCount' = 1
  ELSE intervalCount' = intervalCount + 1 /\ UNCHANGED elapsed

\* A page request begins now.
Begin(kind, u) ==
  /\ recent' = Append(recent, [kind |-> kind, age |-> 0])
  /\ inFlight' = inFlight \cup {[kind |-> kind, url |-> u]}

\* The render in flight of that kind for the innermost call.
Rendering(kind) ==
  stack # <<>> /\ [kind |-> kind, url |-> Top.url] \in inFlight

InitTimed ==
  /\ options \in TimedOptions
  /\ fs = {}
  /\ faults = 0
  /\ Constructed
  /\ LimiterIdle
  /\ NoCall

RECURSIVE Aged(_)
\* The requests of the list one tick later; those a second old are dropped.
Aged(rs) ==
  IF Len(rs) = 0 THEN <<>>
  ELSE (IF rs[1].age + 1 < TicksPerSecond
        THEN <<[rs[1] EXCEPT !.age = @ + 1]>> ELSE <<>>) \o Aged(Tail(rs))

\* One tick of the clock passes.
Tick ==
  /\ elapsed' = Min(elapsed + 1, TicksPerSecond)
  /\ recent' = Aged(recent)
  /\ UNCHANGED <<intervalCount, inFlight, crawlerVars, callVars, sessionVars>>

\* `new PQueue({concurrency: 1, interval: 1000, intervalCap: rateLimit})`,
\* made by crawl() right before the state is reset.
NewQueue == elapsed' = TicksPerSecond /\ intervalCount' = 0

TimedCheckExisting ==
  /\ CheckExisting
  /\ NewQueue
  /\ UNCHANGED <<recent, inFlight, callVars, sessionVars>>

\* queue.add(() => processPage(...)): the task starts when the limiter lets
\* it; concurrency 1 lets one task run at a time.
StartProcess ==
  /\ pc = "traverse" /\ stack # <<>> /\ Top.pc = "process"
  /\ ~Rendering("process")
  /\ \A r \in inFlight : r.kind # "process"
  /\ LimiterAllows(EffectiveRateLimit(options))
  /\ LimiterStart
  /\ Begin("process", Top.url)
  /\ UNCHANGED <<crawlerVars, callVars, sessionVars>>

\* The task of the queue ends, with a file saved or an error caught.
TimedProcess ==
  /\ Rendering("process")
  /\ inFlight' = inFlight \ {[kind |-> "process", url |-> Top.url]}
  /\ Process
  /\ UNCHANGED <<elapsed, intervalCount, recent, callVars, sessionVars>>

\* extractLinksFromPage opens its page at once: it does not go through the
\* queue.
StartHarvest ==
  /\ pc = "traverse" /\ stack # <<>> /\ Top.pc = "harvest"
  /\ ~Rendering("harvest")
  /\ browser # "null"
  /\ Begin("harvest", Top.url)
  /\ UNCHANGED <<elapsed, intervalCount, crawlerVars, callVars, sessionVars>>

TimedHarvest ==
  /\ stack # <<>>
  /\ Rendering("harvest") \/ browser = "null"
  /\ inFlight' = inFlight \ {[kind |-> "harvest", url |-> Top.url]}
  /\ Harvest
  /\ UNCHANGED <<elapsed, intervalCount, recent, callVars, sessionVars>>

\* The steps of crawl() against the clock.
CrawlTimed ==
  \/ Initialize /\ UNCHANGED <<limiterVars, callVars, sessionVars>>
  \/ FetchHomepage /\ UNCHANGED <<limiterVars, callVars, sessionVars>>
  \/ TimedCheckExisting
  \/ Enter /\ UNCHANGED <<limiterVars, callVars, sessionVars>>
  \/ StartProcess
  \/ TimedProcess
  \/ StartHarvest
  \/ TimedHarvest
  \/ Loop /\ UNCHANGED <<limiterVars, callVars, sessionVars>>
  \/ Finish /\ UNCHANGED <<limiterVars, callVars, sessionVars>>

NextTimed == CrawlTimed \/ Tick

SpecTimed == InitTimed /\ [][NextTimed]_vars

\* A crawl whose renders and writes all complete.
InitReliable ==
  /\ options \in TimedOptions
  /\ fs = {}
  /\ faults = MaxFaults
  /\ Constructed
  /\ LimiterIdle
  /\ NoCall

\* Time passes, and a continuation that can run is run by the event loop.
FairSpecTimed ==
  InitReliable /\ [][NextTimed]_vars /\ WF_vars(Tick) /\ WF_vars(CrawlTimed)

----------------------------------------------------------------------------
(* Two invocations of crawl() on one DocumentationCrawler.  The instance's *)
(* fields (browser, visited, discovered, errors, savedFiles) are shared;   *)
(* each invocation has its own arguments and locals.                       *)

\* The arguments and locals of the invocation that is running.
Locals ==
  [options |-> options, pc |-> pc, category |-> category, name |-> name,
   indexExists |-> indexExists, maxDepth |-> maxDepth, stack |-> stack, result |-> result]

SessionOptions ==
  [url : {Root, PageASlash}, max_depth : {Some(1)}, force_refresh : BOOLEAN,
   include_patterns : {None}, exclude_patterns : {None}]

\* The running invocation is suspended at an await or has settled.  From the
\* reset, and from the loop's call of crawlRecursive, the code runs without
\* an await up to queue.add.
AtAwait == ~(pc = "traverse" /\ stack # <<>> /\ Top.pc = "enter")

\* Mutant: the reset empties the arrays in place (length = 0).
ArraysEmptiedInPlace == held

\* `this.errors = []; this.savedFiles = []`: new arrays, which no returned
\* result holds.
NewArrays == {}

\* The savedFiles and errors of a traversal's result are this.savedFiles and
\* this.errors themselves, not copies; the existing-documentation result
\* has arrays of its own.
HeldAfter ==
  IF pc = "check" /\ pc' = "traverse" THEN NewArrays
  ELSE IF pc = "traverse" /\ pc' = "returned" THEN held \cup {self}
  ELSE held

\* The result res that invocation who returned, as its caller reads it now.
SeenResult(who, res) ==
  IF res = None THEN None
  ELSE IF who \in held
  THEN Some([res[1] EXCEPT !.savedFiles = savedFiles, !.errors = errors])
  ELSE res

\* A step of the running invocation.
Running ==
  /\ held' = HeldAfter
  /\ UNCHANGED <<other, self, mode, since, switches, limiterVars, callVars>>

\* crawl(options) is called a second time on the instance, after the first
\* call has settled or while it is suspended at an await.
CrawlAgain ==
  /\ other = None /\ pc # "start" /\ AtAwait
  /\ other' = Some(Locals)
  /\ self' = 2
  /\ mode' = IF pc \in {"returned", "threw"} THEN "sequential" ELSE "overlapping"
  /\ since' = Len(fetchLog)
  /\ options' \in SessionOptions
  /\ pc' = "start"
  /\ category' = "tools"
  /\ name' = ""
  /\ indexExists' = FALSE
  /\ maxDepth' = 0
  /\ stack' = <<>>
  /\ result' = None
  /\ UNCHANGED <<browser, visited, discovered, errors, savedFiles, fs, fetchLog, faults,
                 held, switches, limiterVars, callVars>>

\* The event loop resumes the other invocation at the await it is
\* suspended at.
Switch ==
  /\ other # None /\ AtAwait /\ other[1].pc \notin {"returned", "threw"}
  /\ switches < MaxSwitches
  /\ switches' = switches + 1
  /\ other' = Some(Locals)
  /\ self' = 3 - self
  /\ options' = other[1].options
  /\ pc' = other[1].pc
  /\ category' = other[1].category
  /\ name' = other[1].name
  /\ indexExists' = other[1].indexExists
  /\ maxDepth' = other[1].maxDepth
  /\ stack' = other[1].stack
  /\ result' = other[1].result
  /\ UNCHANGED <<browser, visited, discovered, errors, savedFiles, fs, fetchLog, faults,
                 held, mode, since, limiterVars, callVars>>

InitSessions ==
  /\ options \in {o \in SessionOptions : ~o.force_refresh}
  /\ fs = {}
  /\ faults = MaxFaults
  /\ Constructed
  /\ LimiterIdle
  /\ NoCall

NextSessions ==
  \/ Initialize /\ Running
  \/ FetchHomepage /\ Running
  \/ CheckExisting /\ Running
  \/ Enter /\ Running
  \/ Process /\ Running
  \/ Harvest /\ Running
  \/ Loop /\ Running
  \/ Finish /\ Running
  \/ CrawlAgain
  \/ Switch

SpecSessions == InitSessions /\ [][NextSessions]_vars

----------------------------------------------------------------------------
(* Calls of the pure functions.                                            *)

\* A crawler on which crawl() is not called.
IdleOptions ==
  [url |-> Root, max_depth |-> None, force_refresh |-> FALSE,
   include_patterns |-> None, exclude_patterns |-> None]

NoCrawl ==
  /\ options = IdleOptions
  /\ fs = {}
  /\ faults = 0
  /\ Constructed
  /\ LimiterIdle

\* The URL strings normalizeUrl is called with.
UrlPaths == {<<>>, <<"">>, <<"a">>, <<"a", "">>, <<"a", "", "">>}
UrlQueries == {<<>>, <<"x=1", "y=2">>, <<"y=2", "x=1">>, <<"x=1", "x=2">>, <<"x=2", "x=1">>}
UrlInputs ==
  {U(DocsHost, p, q, h) : p \in UrlPaths, q \in UrlQueries, h \in {"", "top"}}
  \cup {NotAUrl, BadUrl(<<"/", "a", "/">>)}

\* normalizeUrl is called on two strings, one after the other.
InitUrl ==
  /\ call \in {[fn |-> "normalizeUrl", args |-> <<u1, u2>>] : u1 \in UrlInputs, u2 \in UrlInputs}
  /\ returned = <<>>
  /\ NoCrawl

\* The call on the first string returns the string of the normalized URL.
NormalizeFirst ==
  /\ Len(returned) = 0
  /\ returned' = <<Href(normalizeUrl(call.args[1]))>>
  /\ UNCHANGED <<call, crawlerVars, limiterVars, sessionVars>>

\* The call on the second string returns.
NormalizeSecond ==
  /\ Len(returned) = 1
  /\ returned' = Append(returned, Href(normalizeUrl(call.args[2])))
  /\ UNCHANGED <<call, crawlerVars, limiterVars, sessionVars>>

NextUrl == NormalizeFirst \/ NormalizeSecond

SpecUrl == InitUrl /\ [][NextUrl]_vars

\* The URL strings and the contents categorize is called with.
ExampleCom == <<"example", "com">>
CategorizedHosts ==
  {ExampleCom, <<"api">> \o ExampleCom, <<"docs">> \o ExampleCom,
   <<"developers">> \o ExampleCom}
CategorizedPaths ==
  {<<"">>, <<"docs">>, <<"docs", "">>, <<"api">>, <<"api", "reference">>,
   <<"getting-started">>, <<"docs", "api", "">>, <<"docs", "v1", "">>,
   <<"guide", "install">>, <<"overview">>}
CategorizedUrls ==
  {P(h, p) : h \in CategorizedHosts, p \in CategorizedPaths}
  \cup {NotAUrl, BadUrl(<<"api", ".", "/", "docs", "/">>), BadUrl(<<>>)}
CategorizedContents ==
  {Content("absent", 0, 0), EmptyContent, Content("space", 0, 0)}
  \cup {Content("text", a, t) : a \in {0, 1, 3, 20}, t \in {0, 1, 3, 20}}

InitCategorize ==
  /\ call \in {[fn |-> "categorize", args |-> <<u, c>>] :
                 u \in CategorizedUrls, c \in CategorizedContents}
  /\ returned = <<>>
  /\ NoCrawl

\* categorize(url, content) returns.
Categorize ==
  /\ Len(returned) = 0
  /\ returned' = <<categorize(call.args[1], call.args[2])>>
  /\ UNCHANGED <<call, crawlerVars, limiterVars, sessionVars>>

\* A second call with the same arguments, on the same categorizer.
CategorizeAgain ==
  /\ Len(returned) = 1
  /\ returned' = Append(returned, categorize(call.args[1], call.args[2]))
  /\ UNCHANGED <<call, crawlerVars, limiterVars, sessionVars>>

NextCategorize == Categorize \/ CategorizeAgain

SpecCategorize == InitCategorize /\ [][NextCategorize]_vars

----------------------------------------------------------------------------
(* Properties of the traversal.                                            *)

\* The entries of the fetch log of one kind.
Fetches(kind) == {i \in 1..Len(fetchLog) : fetchLog[i].kind = kind}

\* The renders made by the traversal: processPage and extractLinksFromPage.
TraversalFetches == Fetches("process") \cup Fetches("harvest")

\* crawl() has returned the result of a traversal.
Traversed == pc = "returned" /\ ~indexExists

\* C1: within one crawl, processPage is invoked at most once per normalized
\* URL; a URL is in the visited set before its processing is scheduled, and
\* a later arrival at the same normalized URL is a no-op.
C1_AtMostOncePerNormalizedUrl ==
  /\ \A i, j \in Fetches("process") :
       normalizeUrl(fetchLog[i].url) = normalizeUrl(fetchLog[j].url) => i = j
  /\ \A i \in Fetches("process") : normalizeUrl(fetchLog[i].url) \in visited
  /\ \A k \in 1..Len(stack) :
       stack[k].pc # "enter" => normalizeUrl(stack[k].url) \in visited

\* A URL arrives whose normalized form was processed under another spelling.
C1_Witness ==
  /\ pc = "traverse" /\ stack # <<>> /\ Top.pc = "enter"
  /\ \E i \in Fetches("process") :
       /\ fetchLog[i].url # Top.url
       /\ normalizeUrl(fetchLog[i].url) = normalizeUrl(Top.url)

C3_SameHostOnly ==
  /\ \A i \in TraversalFetches :
       /\ fetchLog[i].url.valid /\ options.url.valid
       /\ fetchLog[i].url.host = options.url.host
  /\ \A k \in 1..Len(stack) :
       stack[k].pc # "enter" =>
         stack[k].url.valid /\ stack[k].url.host = options.url.host

\* A link to a sibling subdomain was harvested and the crawl is over.
C3_Witness ==
  /\ Traversed
  /\ normalizeUrl(OtherA) \in discovered
  /\ OtherA.host # options.url.host

\* Some entry of the list compiles and matches the URL.
MatchesAny(u, patterns) ==
  \E i \in 1..Len(patterns) : Compiles(patterns[i]) /\ RegexTest(patterns[i], Href(u))

C5_MaxDepthZero ==
  (Traversed /\ options.max_depth = Some(0) /\ normalizeUrl(options.url) \in visited) =>
    /\ result[1].stats.processed = 1
    /\ result[1].stats.discovered = 0
    /\ Fetches("harvest") = {}

\* The messages of the errors processPage throws.
PageFailures ==
  {"Browser not initialized", "Navigation failed", "No content extracted", "Write failed"}

\* The errors recorded for failed content saves.
FailedSaves == {k \in 1..Len(errors) : errors[k].msg \in PageFailures}

\* C6: a page whose content save fails (render error, blank content, write
\* failure) adds exactly one entry to errors and none to savedFiles, and no
\* links are harvested from it.
C6_FailedPage ==
  /\ \A k \in FailedSaves :
       /\ Cardinality({j \in 1..Len(errors) : errors[j].url = errors[k].url}) = 1
       /\ \A i \in Fetches("harvest") : fetchLog[i].url # errors[k].url
       /\ \A f \in 1..Len(stack) :
            stack[f].url = errors[k].url => stack[f].pc = "enter"
       /\ \E i \in Fetches("process") : fetchLog[i].url = errors[k].url
  /\ Len(savedFiles) + Cardinality(FailedSaves) = Cardinality(Fetches("process"))

\* A blank page with a link on it and a page whose render or write failed
\* were both processed, and the crawl is over.
C6_Witness ==
  /\ Traversed
  /\ \E k \in FailedSaves : errors[k].url = PageD /\ errors[k].msg = "No content extracted"
  /\ \E k \in FailedSaves : errors[k].msg \in {"Navigation failed", "Write failed"}
  /\ Len(extractLinks(PageD)) > 0
  /\ Len(savedFiles) > 0

\* C7: with force_refresh off and the index file present, crawl() returns
\* zero stats, success, no saved files and one explanatory error, and renders
\* nothing but the homepage; with force_refresh on, or the file absent, the
\* traversal starts.
C7_ExistingDocumentation ==
  /\ indexExists => ~options.force_refresh
  /\ (pc = "returned" /\ indexExists) =>
       /\ result = Some([success |-> TRUE,
                         stats |-> [discovered |-> 0, processed |-> 0, saved |-> 0,
                                    errors |-> 0],
                         savedFiles |-> <<>>,
                         errors |-> <<"Documentation already exists. Use force_refresh to update.">>,
                         category |-> category, name |-> name])
       /\ Len(fetchLog) = 1 /\ fetchLog[1].kind = "home"
       /\ fileExists(FilePath(getDocumentationPath(category, name), "index.md"))
       /\ visited = {} /\ savedFiles = <<>>
  /\ (pc = "traverse" /\ Len(fetchLog) = 1 /\ ~options.force_refresh) =>
       ~fileExists(FilePath(getDocumentationPath(category, name), "index.md"))
  /\ pc = "traverse" => ~indexExists

\* The early return was taken for a seed whose homepage was rendered.
C7_Witness ==
  /\ pc = "returned" /\ indexExists
  /\ options.url = Root /\ ~options.force_refresh
  /\ browser = "null"

\* What C8 asks of a result r.
ResultConsistent(r) ==
  /\ r.success = (Len(r.errors) = 0)
  /\ r.stats.errors = Len(r.errors)
  /\ r.stats.saved = Len(r.savedFiles)
  /\ r.stats.processed = Cardinality(visited)
  /\ r.stats.discovered = Cardinality(discovered)

\* C8 as stated: every CrawlResult returned by crawl() has success =
\* (errors.length == 0) and stats equal to the sizes of errors, savedFiles,
\* visited and discovered.
C8_EveryResult == pc = "returned" => ResultConsistent(result[1])

\* C8 amended: every CrawlResult returned after a traversal is consistent in
\* that way; the existing-documentation result reports success and zero
\* stats next to its one error string.
C8_TraversalResult ==
  /\ Traversed => ResultConsistent(result[1])
  /\ (pc = "returned" /\ indexExists) =>
       /\ result[1].success /\ Len(result[1].errors) = 1
       /\ result[1].stats.errors = 0 /\ result[1].stats.saved = Len(result[1].savedFiles)

\* A traversal ended with saved pages, failed pages and links never visited.
C8_Witness ==
  /\ Traversed
  /\ Len(result[1].errors) > 0 /\ Len(result[1].savedFiles) > 0
  /\ result[1].stats.discovered > result[1].stats.processed

\* C9: a failure of a harvested link's processing is recorded with that
\* link's URL, the parent is not recorded as failed, and the parent's loop
\* goes on with the next sibling.
C9_ChildFailureContinues ==
  [][(pc = "traverse" /\ Len(stack) > 1 /\ Top.pc = "process" /\ errors' # errors) =>
       /\ \E m \in PageFailures : errors' = Append(errors, Failure(Top.url, m))
       /\ pc' = "traverse"
       /\ stack' = Pop(stack)
       /\ stack'[Len(stack')].pc = "loop"
       /\ stack'[Len(stack')].url # Top.url]_vars

\* The first link of the seed failed and a later sibling was processed.
C9_Witness ==
  /\ Traversed
  /\ \E k \in FailedSaves : errors[k].url = PageA
  /\ \E i \in Fetches("process") : fetchLog[i].url = PageBTop /\ fetchLog[i].depth = 1
  /\ \A k \in 1..Len(errors) : errors[k].url # Root

\* C10: crawl() on a seed that is no parseable URL does not throw; it
\* returns success with no errors, no saved files and stats.processed = 0
\* (stated for the case that no documentation exists yet).
C10_InvalidSeed ==
  (~options.url.valid /\ pc \in {"returned", "threw"} /\ Len(fetchLog) >= 1 /\ ~indexExists) =>
    /\ pc = "returned"
    /\ result[1].success /\ result[1].errors = <<>>
    /\ result[1].savedFiles = <<>> /\ result[1].stats.processed = 0

\* The message of the SyntaxError new RegExp throws.
PatternFailures == {k \in 1..Len(errors) : errors[k].msg = "Invalid regular expression"}

\* C11: a pattern that does not compile never makes matchesPatterns or
\* crawl() throw: no error is attributed to a page because of it, and once
\* the browser is up crawl() returns a CrawlResult.
C11_UncompilablePattern ==
  /\ PatternFailures = {}
  /\ pc = "threw" => fetchLog = <<>>

\* crawl() is over, by a return or by an exception.
Finished == pc \in {"returned", "threw"}

\* C12: whenever crawl() finishes, by a normal return, by the early return
\* or by an exception, the browser is closed and the browser field is null;
\* pages are rendered only while the browser is open, and none after the end.
C12_BrowserReleased ==
  /\ [](Finished => browser = "null")
  /\ [][fetchLog' # fetchLog => browser = "open" /\ ~Finished]_vars
  /\ [][Finished => fetchLog' = fetchLog /\ browser' = "null"]_vars

\* crawl() ended by an exception after the browser had rendered a page.
C12_Witness ==
  /\ pc = "threw" /\ browser = "null"
  /\ Len(fetchLog) >= 1

----------------------------------------------------------------------------
(* Properties of the crawl against the clock.                              *)

RequestedRate == OrElse(options.rate_limit, defaultRateLimit)

\* The requests of the given kinds begun within the last second.
RecentStarts(kinds) == SelectSeq(recent, LAMBDA r : r.kind \in kinds)

\* The content-save fetches begun since the limiter's current interval began.
StartsInInterval ==
  SelectSeq(recent, LAMBDA r : r.kind = "process" /\ r.age <= elapsed)

\* The normalized URL has passed the checks of crawlRecursive and awaits
\* its processing.
Waiting(v) ==
  \E k \in 1..Len(stack) : stack[k].pc = "process" /\ normalizeUrl(stack[k].url) = v

\* processPage has run for the normalized URL.
Processed(v) == \E i \in Fetches("process") : normalizeUrl(fetchLog[i].url) = v

C15_RequestsPerSecond == Len(RecentStarts({"process", "harvest"})) <= RequestedRate

----------------------------------------------------------------------------
(* More properties of one crawl().                                         *)

\* C16: an empty include_patterns list places no restriction: as with the
\* list omitted, a parseable seed that no exclude pattern matches is
\* processed.
C16_EmptyIncludeList ==
  (/\ Traversed
   /\ options.include_patterns = Some(<<>>)
   /\ options.url.valid
   /\ IsSome(options.exclude_patterns) => ~MatchesAny(options.url, options.exclude_patterns[1]))
  => /\ normalizeUrl(options.url) \in visited
     /\ Fetches("process") # {}

----------------------------------------------------------------------------
(* Properties of normalizeUrl.                                             *)

\* Both calls of normalizeUrl have returned.
BothNormalized == IsSome(call) /\ call.fn = "normalizeUrl" /\ Len(returned) = 2

\* One path is the other with one more trailing slash, or the same.
TrailingSlashApart(p1, p2) == p1 = p2 \/ p1 = p2 \o <<"">> \/ p2 = p1 \o <<"">>

\* The parameters of the two queries are the same up to their order.
Reordered(q1, q2) ==
  /\ Len(q1) = Len(q2)
  /\ \A p \in {q1[i] : i \in 1..Len(q1)} \cup {q2[i] : i \in 1..Len(q2)} :
       Len(SelectSeq(q1, LAMBDA x : x = p)) = Len(SelectSeq(q2, LAMBDA x : x = p))

\* As Reordered, with the parameters of one name in the same order.
ReorderedAcrossNames(q1, q2) ==
  /\ Reordered(q1, q2)
  /\ \A n \in {"x", "y"} :
       SelectSeq(q1, LAMBDA x : ParamName(x) = n) = SelectSeq(q2, LAMBDA x : ParamName(x) = n)

\* The path does not end in a slash that follows a slash.
NoEmptySegmentBeforeEnd(p) ==
  ~(Len(p) >= 2 /\ p[Len(p)] = "" /\ p[Len(p) - 1] = "")

\* C17 as stated: any two absolute URLs that differ only by a trailing
\* slash, by the fragment or by the order of the query parameters get the
\* same key, and an unparseable input is returned unchanged.
C17_SameKey ==
  BothNormalized =>
    LET u1 == call.args[1]
        u2 == call.args[2]
    IN /\ (u1.valid /\ u2.valid /\ u1.host = u2.host
            /\ TrailingSlashApart(u1.path, u2.path) /\ Reordered(u1.query, u2.query))
           => returned[1] = returned[2]
       /\ ~u1.valid => returned[1] = u1.raw

\* C17 amended: any two absolute URLs that differ only by one trailing
\* slash on paths that do not end in two slashes, by the fragment, or by
\* the order of query parameters of different names get the same key (the
\* root with and without its slash included); an unparseable input is
\* returned unchanged.
C17_SameKeyUpToOneSlash ==
  BothNormalized =>
    LET u1 == call.args[1]
        u2 == call.args[2]
    IN /\ (u1.valid /\ u2.valid /\ u1.host = u2.host
            /\ TrailingSlashApart(u1.path, u2.path)
            /\ NoEmptySegmentBeforeEnd(u1.path) /\ NoEmptySegmentBeforeEnd(u2.path)
            /\ ReorderedAcrossNames(u1.query, u2.query))
           => returned[1] = returned[2]
       /\ ~u1.valid => returned[1] = u1.raw
       /\ ~u2.valid => returned[2] = u2.raw

\* Two URLs that differ in the trailing slash, the fragment and the order
\* of the parameters were given one key; so were the root with and without
\* its slash.
C17_Witness ==
  /\ BothNormalized
  /\ \/ /\ call.args[1] = U(DocsHost, <<"a", "">>, <<"y=2", "x=1">>, "top")
        /\ call.args[2] = U(DocsHost, <<"a">>, <<"x=1", "y=2">>, "")
     \/ /\ call.args[1] = U(DocsHost, <<>>, <<>>, "")
        /\ call.args[2] = U(DocsHost, <<"">>, <<>>, "")
  /\ returned[1] = returned[2]

----------------------------------------------------------------------------
(* Properties of the categorizer.                                          *)

\* categorize has returned.
Categorized == IsSome(call) /\ call.fn = "categorize" /\ Len(returned) >= 1

\* No content was supplied.
NoContent == call.args[2].kind = "absent"

ApiExampleDocs == P(<<"api">> \o ExampleCom, <<"docs">>)

\* C19 as stated: categorize("https://api.example.com/docs") with no content
\* returns apis with confidence 0.85, by the subdomain precedence.
C19_SubdomainPrecedence85 ==
  (Categorized /\ call.args[1] = ApiExampleDocs /\ NoContent) =>
    returned[1].category = "apis" /\ returned[1].confidence = 8500

\* C19 amended: for that URL only the API-indicative set matches (a path
\* that ends in "/docs" matches no tool pattern), and the result is apis with
\* confidence 0.9 by the match count; with the path "/docs/" both sets match
\* and the subdomain precedence gives apis with confidence 0.85.
C19_ApisByMatchCount ==
  /\ (Categorized /\ call.args[1] = ApiExampleDocs /\ NoContent) =>
       /\ returned[1].category = "apis" /\ returned[1].confidence = 9000
       /\ Matched(toolUrlPatterns, Href(call.args[1])) = {}
  /\ (Categorized /\ call.args[1] = P(<<"api">> \o ExampleCom, <<"docs", "">>) /\ NoContent) =>
       returned[1].category = "apis" /\ returned[1].confidence = 8500

\* The example URL was categorized without content.
C19_Witness ==
  /\ Categorized /\ call.args[1] = ApiExampleDocs /\ NoContent
  /\ returned[1].category = "apis"

\* C20: with no content, when the URL analysis picks tools or apis,
\* categorize returns that category with the URL confidence, which is at
\* least 0.8; when the URL analysis is unknown it returns tools with
\* confidence 0.3.
C20_UrlOnly ==
  (Categorized /\ NoContent) =>
    LET urlScore == analyzeUrl(call.args[1])
        r == returned[1]
    IN IF urlScore.category # "unknown"
       THEN r.category = urlScore.category /\ r.confidence = urlScore.confidence
            /\ r.confidence >= 8000
       ELSE r.category = "tools" /\ r.confidence = 3000 /\ r.confidence < 5000

\* The spec's example, https://docs.example.com/getting-started without
\* content, came out as tools.
C20_Witness ==
  /\ Categorized /\ NoContent
  /\ call.args[1] = P(<<"docs">> \o ExampleCom, <<"getting-started">>)
  /\ returned[1].category = "tools" /\ returned[1].confidence >= 8000

\* C21: the empty string is handled as absent content: categorize(url, "")
\* returns what the URL analysis alone gives (the category, confidence and
\* reasons of categorize(url)), so a clear URL pattern keeps its confidence of
\* at least 0.8.
C21_EmptyContentIsAbsent ==
  (Categorized /\ call.args[2].kind = "empty") =>
    LET urlScore == analyzeUrl(call.args[1])
        r == returned[1]
    IN /\ r = combineScores(urlScore, None)
       /\ urlScore.category # "unknown" =>
            r.category = urlScore.category /\ r.confidence = urlScore.confidence
            /\ r.confidence >= 8000 /\ r.reasons = <<"URL patterns matched">>
       /\ urlScore.category = "unknown" =>
            r.category = "tools" /\ r.confidence = 3000

\* The test's case: https://docs.example.com/api with the empty string.
C21_Witness ==
  /\ Categorized /\ call.args[2].kind = "empty"
  /\ call.args[1] = P(<<"docs">> \o ExampleCom, <<"api">>)
  /\ returned[1].category = "apis" /\ returned[1].confidence = 8000

\* Non-empty content was supplied.
SomeContent == call.args[2].kind \in {"space", "text"}

\* C22: with non-empty content, when the URL analysis and the content
\* analysis do not agree on a category other than unknown, the confidence is
\* below 0.8: the winner is discounted by 0.75 (the content wins only with a
\* higher confidence and a category other than unknown), and when neither
\* picks a category the result is tools with confidence 0.4.
C22_Disagreement ==
  (Categorized /\ SomeContent) =>
    LET urlScore == analyzeUrl(call.args[1])
        cs == analyzeContent(call.args[2])
        r == returned[1]
    IN ~(urlScore.category = cs.category /\ urlScore.category # "unknown") =>
         /\ r.confidence < 8000
         /\ IF cs.confidence > urlScore.confidence /\ cs.category # "unknown"
            THEN r.category = cs.category /\ 4 * r.confidence = 3 * cs.confidence
            ELSE IF urlScore.category # "unknown"
            THEN r.category = urlScore.category /\ 4 * r.confidence = 3 * urlScore.confidence
            ELSE r.category = "tools" /\ r.confidence = 4000

\* The test's case: an API URL with tool content; the URL wins, discounted.
C22_Witness ==
  /\ Categorized /\ call.args[1] = ApiExampleDocs
  /\ call.args[2] = Content("text", 0, 3)
  /\ returned[1].category = "apis" /\ returned[1].confidence = 6750

\* C24: whenever both pattern sets match and the URL has an api or
\* developer(s) subdomain or an API-style path segment, the URL analysis
\* gives apis with confidence 0.85, also when the tool-indicative matches
\* outnumber the API-indicative ones.
C24_PrecedenceBeforeCount ==
  (Categorized /\ NoContent) =>
    LET text == Href(call.args[1])
        nApi == Cardinality(Matched(apiUrlPatterns, text))
        nTool == Cardinality(Matched(toolUrlPatterns, text))
    IN (nApi > 0 /\ nTool > 0 /\ (ApiSubdomain(text) \/ ApiPathSegment(text))) =>
         returned[1].category = "apis" /\ returned[1].confidence = 8500

\* https://docs.example.com/docs/api/ has two tool-indicative matches and
\* one API-indicative match, and came out as apis at 0.85.
C24_Witness ==
  /\ Categorized /\ NoContent
  /\ call.args[1] = P(<<"docs">> \o ExampleCom, <<"docs", "api", "">>)
  /\ Cardinality(Matched(toolUrlPatterns, Href(call.args[1])))
       > Cardinality(Matched(apiUrlPatterns, Href(call.args[1])))
  /\ returned[1].category = "apis" /\ returned[1].confidence = 8500

\* C26: after a traversal every processed URL has exactly one outcome, a
\* saved file or an error: stats.saved + stats.errors = stats.processed, and
\* the errors name processed pages, each at most once.
C26_OneOutcomePerPage ==
  Traversed =>
    /\ result[1].stats.saved + result[1].stats.errors = result[1].stats.processed
    /\ \A k \in 1..Len(result[1].errors) :
         /\ normalizeUrl(result[1].errors[k].url) \in visited
         /\ \A j \in 1..Len(result[1].errors) :
              result[1].errors[j].url = result[1].errors[k].url => j = k

\* C27: within one crawl no file path is written twice: savedFiles has no
\* duplicates, so stats.saved is the number of distinct files written.
C27_DistinctFiles ==
  Traversed =>
    /\ \A i, j \in 1..Len(savedFiles) : savedFiles[i] = savedFiles[j] => i = j
    /\ result[1].stats.saved = Cardinality({savedFiles[i] : i \in 1..Len(savedFiles)})

\* The normalized same-host links of the page v, as a crawl from seed sees
\* them; a page with no extractable content has none that count.
LinksOf(v, seed) ==
  IF extractContent(v).kind # "text" THEN {}
  ELSE {normalizeUrl(extractLinks(v)[i]) :
          i \in {j \in 1..Len(extractLinks(v)) : isSameDomain(extractLinks(v)[j], seed)}}

RECURSIVE Within(_, _)
\* The normalized URLs at link distance at most k from the seed.
Within(seed, k) ==
  IF k = 0 THEN {normalizeUrl(seed)}
  ELSE LET prev == Within(seed, k - 1)
       IN prev \cup UNION {LinksOf(v, seed) : v \in prev}

\* C28: breadth-first coverage: without patterns and failures, every
\* same-host page whose shortest link distance from the seed is at most
\* max_depth is processed, and every page closer than max_depth has its
\* links harvested, whatever the order of the links.
C28_BreadthFirstCoverage ==
  (/\ Traversed /\ faults = 0 /\ options.url.valid
   /\ options.include_patterns = None /\ options.exclude_patterns = None) =>
    /\ Within(options.url, maxDepth) \subseteq visited
    /\ maxDepth > 0 =>
         \A v \in Within(options.url, maxDepth - 1) :
           extractContent(v).kind = "text" =>
             \E i \in Fetches("harvest") : normalizeUrl(fetchLog[i].url) = v

\* No call of crawlRecursive that got past its checks is deeper than
\* max_depth, so at most max_depth + 2 calls are pending.
DepthBounded ==
  /\ Len(stack) <= maxDepth + 2
  /\ \A i \in 1..Len(stack) : stack[i].pc # "enter" => stack[i].depth <= maxDepth

\* C30: crawl() terminates on every finite link graph, cycles included,
\* given that renders, writes and waits complete: the recursion is never
\* deeper than max_depth, the loop recurses into a normalized link only when
\* it was not discovered before (so at most once), and crawl() eventually
\* returns or rejects.
C30_Terminates ==
  /\ []DepthBounded
  /\ [][(pc = "traverse" /\ Len(stack') > Len(stack)) =>
          /\ normalizeUrl(stack'[Len(stack')].url) \notin discovered
          /\ normalizeUrl(stack'[Len(stack')].url) \in discovered']_vars
  /\ <>Finished

\* A crawl over the cycle a -> b -> a (and a -> a#top) has returned.
C30_Witness ==
  /\ Traversed
  /\ \E i \in Fetches("harvest") : fetchLog[i].url = PageB
  /\ \E i \in Fetches("harvest") : normalizeUrl(fetchLog[i].url) = PageA
  /\ PageA \in visited /\ PageB \in visited

\* The first invocation ran a traversal and returned.
FirstTraversed ==
  other # None /\ self = 2 /\ other[1].pc = "returned" /\ ~other[1].indexExists

\* The normalized URLs processed since the second call was made.
ProcessedSince ==
  {normalizeUrl(fetchLog[i].url) : i \in {j \in Fetches("process") : j > since}}

\* C23: sequential invocations of crawl() on one instance are isolated: the
\* traversal of the later one begins with empty visited, discovered, errors
\* and savedFiles; its result is that of a fresh instance (it counts only
\* what this invocation processed, and for the same seed and depth it equals
\* the first invocation's result); and no step of the later invocation
\* changes the savedFiles and errors lists of the earlier result.
C23_SequentialIsolated ==
  /\ [](mode = "sequential" =>
          /\ (pc = "traverse" /\ stack = <<Frame(options.url, 0, None)>>) =>
               visited = {} /\ discovered = {} /\ errors = <<>> /\ savedFiles = <<>>
          /\ Traversed =>
               /\ visited = ProcessedSince
               /\ result[1].stats.processed = Cardinality(ProcessedSince)
               /\ (FirstTraversed /\ options.url = other[1].options.url
                   /\ options.max_depth = other[1].options.max_depth) =>
                    SeenResult(2, result) = SeenResult(1, other[1].result))
  /\ [][mode = "sequential" =>
          SeenResult(1, other[1].result)' = SeenResult(1, other[1].result)]_vars

\* The root was crawled twice in a row on one instance, the second time with
\* force_refresh, and both results list the same saved files.
C23_Witness ==
  /\ mode = "sequential" /\ Traversed /\ FirstTraversed
  /\ options.url = Root /\ other[1].options.url = Root
  /\ Len(other[1].result[1].savedFiles) >= 2
  /\ result[1].savedFiles = other[1].result[1].savedFiles
  /\ held = {2}

\* A step of the running invocation, not a call or a switch.
SameInvocation == self' = self /\ other' = other

\* C25: overlapping invocations of crawl() on one instance interfere: the
\* reset of the later one empties visited, discovered and the lists while
\* the earlier one is still traversing, and whichever returns first closes
\* the shared browser, after which the other's pages fail with 'Browser not
\* initialized' and its link extraction yields no links.
C25_OverlapInterferes ==
  [][(mode = "overlapping" /\ SameInvocation) =>
       /\ (pc = "check" /\ pc' = "traverse") =>
            visited' = {} /\ discovered' = {} /\ errors' = <<>> /\ savedFiles' = <<>>
       /\ (pc # "returned" /\ pc' = "returned") => browser' = "null"
       /\ (pc = "traverse" /\ stack # <<>> /\ browser = "null") =>
            /\ Top.pc = "process" =>
                 /\ errors' = Append(errors, Failure(Top.url, "Browser not initialized"))
                 /\ savedFiles' = savedFiles /\ fetchLog' = fetchLog
            /\ Top.pc = "harvest" =>
                 /\ stack'[Len(stack')].pc = "loop" /\ stack'[Len(stack')].links = <<>>
                 /\ fetchLog' = fetchLog]_vars

\* Both invocations have returned.  The one seeded at the root saved the
\* root twice (the other's reset had emptied visited), its result lists
\* c.md, which only the other invocation can reach, and the other one, which
\* returned last, got 'Browser not initialized' for a page.
C25_Witness ==
  /\ mode = "overlapping" /\ pc = "returned" /\ other[1].pc = "returned"
  /\ self = 2 /\ options.url = PageASlash /\ other[1].options.url = Root
  /\ LET files == SeenResult(1, other[1].result)[1].savedFiles
         index == FilePath(getDocumentationPath(other[1].category, other[1].name), "index.md")
     IN /\ \E i, j \in 1..Len(files) : i # j /\ files[i] = index /\ files[j] = index
        /\ \E i \in 1..Len(files) :
             files[i] = FilePath(getDocumentationPath(category, name), urlToFilename(PageCxy))
  /\ \E k \in 1..Len(result[1].errors) :
       result[1].errors[k] = Failure(PageB, "Browser not initialized")

\* C29: after a crawl that saved at least one file, a second crawl of the
\* same seed with force_refresh off returns the 'Documentation already
\* exists' result, whatever the path of the seed.
C29_SecondCrawlSkipped ==
  (/\ mode = "sequential" /\ pc = "returned" /\ FirstTraversed
   /\ Len(SeenResult(1, other[1].result)[1].savedFiles) >= 1
   /\ options.url = other[1].options.url /\ ~options.force_refresh) =>
    /\ indexExists
    /\ result[1].errors = <<"Documentation already exists. Use force_refresh to update.">>
    /\ result[1].stats.processed = 0

====
